---- MODULE Spec2Model ----
(***************************************************************************)
(* A model of comfyui_image_ops.py: the NHWC <-> NCHW converters, the      *)
(* image loader and saver, and the resize nodes.  Every node is a          *)
(* stateless function of its inputs, so one behaviour of the model is one  *)
(* invocation: Init is the host before the call, each action is one node's *)
(* execute (or one helper) applied to inputs drawn from bounded sets, and  *)
(* the variables record the call, its result and the files it wrote.       *)
(*                                                                         *)
(* Numbers.  Pixel values are held in units of 1/255, so the float 1.0 is  *)
(* the integer 255 and "x / 255.0" of a byte x is x.  Factors are exact     *)
(* rationals num/den with a power of two as den (exact as floats too), so  *)
(* the products and quotients the code rounds are exact in the model.      *)
(*                                                                         *)
(* Strings are sequences of one-character strings.                         *)
(***************************************************************************)
EXTENDS Integers, Sequences, FiniteSets, TLC

VARIABLES pc, node, args, ret, written, dirs

vars == <<pc, node, args, ret, written, dirs>>

(***************************** bounds ***************************************)
\* Largest batch size of an image tensor handed to a node.
MaxBatch == 3
\* Largest height or width of an input image.
MaxSide == 4
\* Largest size argument of a resize node.
MaxSize == 4
\* Largest axis length and largest number of elements of a tensor whose
\* values are all enumerated.
MaxDim == 3
MaxElems == 6

\* The float 1.0 in the model's pixel unit: load_image divides bytes by 255.
Scale == 255

(***************************** helpers **************************************)
Max(a, b) == IF a >= b THEN a ELSE b
Min(a, b) == IF a <= b THEN a ELSE b

\* Python's None and a present value.
None == [none |-> TRUE]
Some(v) == [none |-> FALSE, val |-> v]

(***************************** tensors **************************************)
\* All index tuples of a tensor of the given shape (0-based, as in torch).
RECURSIVE Indices(_)
Indices(shape) ==
    IF shape = <<>> THEN {<<>>}
    ELSE {<<i>> \o r : i \in 0..(shape[1] - 1), r \in Indices(Tail(shape))}

Tensor(shape, data) == [shape |-> shape, data |-> data]

Fill(shape, v) == Tensor(shape, [idx \in Indices(shape) |-> v])

\* torch.Tensor.permute(*dims): axis i of the result is axis dims[i] of the
\* input (dims are 0-based); the element at idx comes from the input index
\* whose coordinate on axis dims[i] is idx[i].
permute(t, dims) ==
    LET n == Len(dims)
        newshape == [i \in 1..n |-> t.shape[dims[i] + 1]]
        src(idx) == [j \in 1..n |-> idx[CHOOSE i \in 1..n : dims[i] + 1 = j]]
    IN  Tensor(newshape, [idx \in Indices(newshape) |-> t.data[src(idx)]])

comfyui_to_native_torch(imgs) == permute(imgs, <<0, 3, 1, 2>>)

\* A converter that applies the forward permutation again (mutant).
native_torch_to_comfyui_same(imgs) == permute(imgs, <<0, 3, 1, 2>>)

native_torch_to_comfyui(imgs) == permute(imgs, <<0, 2, 3, 1>>)

\* t[i]: the i-th slice along the first axis.
Select0(t, i) ==
    LET newshape == Tail(t.shape)
    IN  Tensor(newshape, [idx \in Indices(newshape) |-> t.data[<<i>> \o idx]])

\* t[..., lo:hi]: a slice of the last axis.
SliceLast(t, lo, hi) ==
    LET n == Len(t.shape)
        newshape == [t.shape EXCEPT ![n] = Max(0, Min(hi, t.shape[n]) - lo)]
    IN  Tensor(newshape,
               [idx \in Indices(newshape) |-> t.data[[idx EXCEPT ![n] = idx[n] + lo]]])

\* t[..., c]: one position of the last axis, dropping that axis.
SelectLast(t, c) ==
    LET n == Len(t.shape)
        newshape == SubSeq(t.shape, 1, n - 1)
    IN  Tensor(newshape, [idx \in Indices(newshape) |-> t.data[idx \o <<c>>]])

\* t.unsqueeze(0)
Unsqueeze0(t) ==
    LET newshape == <<1>> \o t.shape
    IN  Tensor(newshape, [idx \in Indices(newshape) |-> t.data[Tail(idx)]])

(***************************** strings **************************************)
DigitChars == <<"0", "1", "2", "3", "4", "5", "6", "7", "8", "9">>

\* str(i) of a non-negative int: its decimal digits.
RECURSIVE str_int(_)
str_int(i) ==
    IF i < 10 THEN <<DigitChars[i + 1]>>
    ELSE str_int(i \div 10) \o <<DigitChars[(i % 10) + 1]>>

\* s.rfind(c): the last 0-based position of c in s, -1 when absent.
rfind(s, c) ==
    LET hits == {k \in 1..Len(s) : s[k] = c}
    IN  IF hits = {} THEN -1
        ELSE (CHOOSE k \in hits : \A j \in hits : j <= k) - 1

\* s.split(c): the pieces of s between occurrences of c.
RECURSIVE split(_, _)
split(s, c) ==
    LET hits == {k \in 1..Len(s) : s[k] = c}
    IN  IF hits = {} THEN <<s>>
        ELSE LET k == CHOOSE k \in hits : \A j \in hits : k <= j
             IN  <<SubSeq(s, 1, k - 1)>> \o split(SubSeq(s, k + 1, Len(s)), c)

\* sep.join(parts)
RECURSIVE join(_, _)
join(parts, sep) ==
    IF parts = <<>> THEN <<>>
    ELSE IF Len(parts) = 1 THEN parts[1]
    ELSE parts[1] \o sep \o join(Tail(parts), sep)

\* seq without its elements that are in drop.
RECURSIVE Without(_, _)
Without(seq, drop) ==
    IF seq = <<>> THEN <<>>
    ELSE IF seq[1] \in drop THEN Without(Tail(seq), drop)
    ELSE <<seq[1]>> \o Without(Tail(seq), drop)

(***************************** paths ****************************************)
\* pathlib.Path(path) of a relative path: its components, with empty and "."
\* components dropped.
Path(path) == Without(split(path, "/"), {<<>>, <<".">>})

\* str(path): the components joined by "/", "." for the empty path.
path_str(path) == IF path = <<>> THEN <<".">> ELSE join(path, <<"/">>)

\* Path.parent
path_parent(path) == IF path = <<>> THEN <<>> ELSE SubSeq(path, 1, Len(path) - 1)

\* Path.name: the final component, "" when there is none.
path_name(path) == IF path = <<>> THEN <<>> ELSE path[Len(path)]

\* Path.suffix: the final component's last dot and what follows it, unless
\* the dot is its first or last character.
path_suffix(path) ==
    LET name == path_name(path)
        i == rfind(name, ".")
    IN  IF 0 < i /\ i < Len(name) - 1 THEN SubSeq(name, i + 1, Len(name)) ELSE <<>>

\* Path.stem: the final component without its suffix.
path_stem(path) ==
    LET name == path_name(path)
        i == rfind(name, ".")
    IN  IF 0 < i /\ i < Len(name) - 1 THEN SubSeq(name, 1, i) ELSE name

\* Path.with_name(name): None stands for the ValueError raised when the path
\* has no name or the new name is not a single component.
path_with_name(path, name) ==
    IF path_name(path) = <<>> \/ name = <<>> \/ name = <<".">>
       \/ \E k \in 1..Len(name) : name[k] = "/"
    THEN None
    ELSE Some(path_parent(path) \o <<name>>)

\* Path.with_stem(stem) appends the stem to the suffix (a mutant: the suffix
\* moved in front of the new stem).
path_with_stem_suffix_first(path, stem) ==
    path_with_name(path, path_suffix(path) \o stem)

\* Path.with_stem(stem) == with_name(stem + suffix)
path_with_stem(path, stem) == path_with_name(path, stem \o path_suffix(path))

\* os.path.split(path): the text up to the last "/" (without it) and the
\* text after it.
os_path_split(path) ==
    LET i == rfind(path, "/")
    IN  IF i < 0 THEN <<(<<>>), path>>
        ELSE <<SubSeq(path, 1, i), SubSeq(path, i + 2, Len(path))>>

(***************************** saving ***************************************)
\* json.dumps(v) of a non-negative int, [int |-> i], or of a string without
\* characters to escape, [str |-> s].
json_dumps(v) ==
    IF "int" \in DOMAIN v THEN str_int(v.int) ELSE <<"\"">> \o v.str \o <<"\"">>

\* Tensor.clamp(lo, hi), elementwise.
clamp(t, lo, hi) ==
    Tensor(t.shape, [idx \in DOMAIN t.data |-> Max(lo, Min(hi, t.data[idx]))])

\* torchvision's to_pil_image of a float CHW tensor: scale to bytes and lay
\* the pixels out as HWC.
to_pil_image(t) == permute(t, <<1, 2, 0>>)

\* PngInfo.add_text for the prompt, when there is one.
PromptChunks(prompt) ==
    IF prompt.none THEN <<>>
    ELSE <<[key |-> <<"p", "r", "o", "m", "p", "t">>, text |-> json_dumps(prompt.val)]>>

\* PngInfo.add_text for every item of extra_pnginfo (a sequence of key/value
\* pairs in the dict's order), when there is one.
ExtraChunks(extra_pnginfo) ==
    IF extra_pnginfo.none THEN <<>>
    ELSE [k \in 1..Len(extra_pnginfo.val) |->
             [key |-> extra_pnginfo.val[k][1],
              text |-> json_dumps(extra_pnginfo.val[k][2])]]

\* The channel test with "at least 3" for "exactly 3" (mutant).
has_three_channels_or_more(chw) == chw.shape[1] >= 3

\* The test save_image applies to the channel-first image.
has_three_channels(chw) == chw.shape[1] = 3

\* save_image(img, path, prompt, extra_pnginfo): the exception raised (if
\* any), the files written and the value returned.
save_image(img, path, prompt, extra_pnginfo) ==
    LET spath == path_str(path)
        chw == permute(img, <<2, 0, 1>>)
    IN  IF Len(img.shape) # 3
        THEN [exc |-> "ValueError",
              msg |-> [what |-> "image batch", got |-> img.shape[1]],
              files |-> <<>>, value |-> None]
        ELSE IF ~has_three_channels(chw)
        THEN [exc |-> "ValueError",
              msg |-> [what |-> "channels", got |-> chw.shape[1]],
              files |-> <<>>, value |-> None]
        ELSE [exc |-> "None", msg |-> None,
              files |-> <<[path |-> spath,
                           pixels |-> to_pil_image(clamp(chw, 0, Scale)),
                           chunks |-> PromptChunks(prompt) \o ExtraChunks(extra_pnginfo)]>>,
              value |-> [filename |-> os_path_split(spath)[2],
                         subfolder |-> os_path_split(spath)[1],
                         type |-> <<"o", "u", "t", "p", "u", "t">>]]

\* Path.mkdir(exist_ok=True) of the destination's parent: the directory
\* exists afterwards.  The file system is taken to work: the parent's own
\* parent exists for every destination the model draws.
mkdir(path, ds) == ds \cup {path}

\* The loop of JWImageSaveToPath.execute over the batch, from position i on:
\* each image is saved under the stem suffixed with its position; the first
\* exception ends the loop.
RECURSIVE SaveBatch(_, _, _, _, _, _)
SaveBatch(image, path, prompt, extra_pnginfo, i, files) ==
    IF i >= image.shape[1]
    THEN [exc |-> "None", msg |-> None, files |-> files, value |-> <<>>]
    ELSE LET subpath == path_with_stem(path, path_stem(path) \o <<"-">> \o str_int(i))
         IN  IF subpath.none
             THEN [exc |-> "ValueError", msg |-> [what |-> "empty name", got |-> 0],
                   files |-> files, value |-> None]
             ELSE LET r == save_image(Select0(image, i), subpath.val, prompt, extra_pnginfo)
                  IN  IF r.exc # "None"
                      THEN [r EXCEPT !.files = files]
                      ELSE SaveBatch(image, path, prompt, extra_pnginfo, i + 1,
                                     files \o r.files)

\* execute with the single-image branch taken for every batch of at most one
\* image, so that image[0] of an empty batch raises IndexError (mutant).
SaveToPath_execute_le1(path, image, prompt, extra_pnginfo) ==
    LET p == Path(path)
    IN  IF image.shape[1] = 0
        THEN [exc |-> "IndexError", msg |-> None, files |-> <<>>, value |-> None,
              mkdir |-> path_parent(p)]
        ELSE IF image.shape[1] = 1
        THEN LET r == save_image(Select0(image, 0), p, prompt, extra_pnginfo)
             IN  [exc |-> r.exc, msg |-> r.msg, files |-> r.files,
                  value |-> IF r.exc # "None" THEN None ELSE <<>>,
                  mkdir |-> path_parent(p)]
        ELSE LET r == SaveBatch(image, p, prompt, extra_pnginfo, 0, <<>>)
             IN  [exc |-> r.exc, msg |-> r.msg, files |-> r.files,
                  value |-> r.value, mkdir |-> path_parent(p)]

\* execute with the index suffix applied to a single image as well (mutant).
SaveToPath_execute_always_indexed(path, image, prompt, extra_pnginfo) ==
    LET p == Path(path)
        r == SaveBatch(image, p, prompt, extra_pnginfo, 0, <<>>)
    IN  [exc |-> r.exc, msg |-> r.msg, files |-> r.files,
         value |-> r.value, mkdir |-> path_parent(p)]

\* JWImageSaveToPath.execute: the exception raised (if any), the files
\* written, the value returned and the directory made before saving.
SaveToPath_execute(path, image, prompt, extra_pnginfo) ==
    LET p == Path(path)
    IN  IF image.shape[1] = 1
        THEN LET r == save_image(Select0(image, 0), p, prompt, extra_pnginfo)
             IN  [exc |-> r.exc, msg |-> r.msg, files |-> r.files,
                  value |-> IF r.exc # "None" THEN None ELSE <<>>,
                  mkdir |-> path_parent(p)]
        ELSE LET r == SaveBatch(image, p, prompt, extra_pnginfo, 0, <<>>)
             IN  [exc |-> r.exc, msg |-> r.msg, files |-> r.files,
                  value |-> r.value, mkdir |-> path_parent(p)]

(***************************** loading **************************************)
\* PIL's Image.convert(mode) of a decoded image [mode, pixels (H,W,C) bytes]:
\* RGB -> RGBA appends a fully opaque alpha channel, RGBA -> RGB drops the
\* alpha channel.
pil_convert(decoded, mode) ==
    IF decoded.mode = mode THEN decoded.pixels
    ELSE IF mode = "RGBA"
    THEN LET sh == [decoded.pixels.shape EXCEPT ![3] = 4]
         IN  Tensor(sh, [idx \in Indices(sh) |->
                            IF idx[3] = 3 THEN Scale ELSE decoded.pixels.data[idx]])
    ELSE SliceLast(decoded.pixels, 0, 3)

\* load_image(path, convert): the decoded file converted to the mode, as
\* floats (bytes / 255.0, the byte itself in the model's unit), with a
\* leading batch axis of size 1.
load_image(decoded, convert) == Unsqueeze0(pil_convert(decoded, convert))

\* The mask left as the alpha channel (mutant).
invert_mask_not(mask) == mask

\* mask = 1 - mask
invert_mask(mask) ==
    Tensor(mask.shape, [idx \in DOMAIN mask.data |-> Scale - mask.data[idx]])

\* JWImageLoadRGB.execute
LoadRGB_execute(decoded) == [image |-> load_image(decoded, "RGB")]

\* JWImageLoadRGBA.execute
LoadRGBA_execute(decoded) ==
    LET img == load_image(decoded, "RGBA")
    IN  [color |-> SliceLast(img, 0, 3),
         mask |-> invert_mask(SelectLast(Select0(img, 0), 3))]

(***************************** resizing *************************************)
LowerChars == <<"a", "b", "c", "d", "e", "f", "g", "h", "i", "j", "k", "l", "m",
                "n", "o", "p", "q", "r", "s", "t", "u", "v", "w", "x", "y", "z">>
UpperChars == <<"A", "B", "C", "D", "E", "F", "G", "H", "I", "J", "K", "L", "M",
                "N", "O", "P", "Q", "R", "S", "T", "U", "V", "W", "X", "Y", "Z">>

\* str.upper()
upper(s) ==
    [k \in 1..Len(s) |->
        IF \E i \in 1..Len(LowerChars) : LowerChars[i] = s[k]
        THEN UpperChars[CHOOSE i \in 1..Len(LowerChars) : LowerChars[i] = s[k]]
        ELSE s[k]]

\* str.replace(old, new) for one-character old and new.
replace(s, old, new) == [k \in 1..Len(s) |-> IF s[k] = old THEN new ELSE s[k]]

\* The members of torchvision's InterpolationMode enum, by name.
InterpolationMode ==
    { <<"N", "E", "A", "R", "E", "S", "T">>,
      <<"N", "E", "A", "R", "E", "S", "T", "_", "E", "X", "A", "C", "T">>,
      <<"B", "I", "L", "I", "N", "E", "A", "R">>,
      <<"B", "I", "C", "U", "B", "I", "C">>,
      <<"B", "O", "X">>,
      <<"H", "A", "M", "M", "I", "N", "G">>,
      <<"L", "A", "N", "C", "Z", "O", "S">> }

\* The kernels torch's interpolate implements for tensors.
TensorKernels ==
    { <<"N", "E", "A", "R", "E", "S", "T">>,
      <<"N", "E", "A", "R", "E", "S", "T", "_", "E", "X", "A", "C", "T">>,
      <<"B", "I", "L", "I", "N", "E", "A", "R">>,
      <<"B", "I", "C", "U", "B", "I", "C">> }

\* The two statements every resize node starts with:
\*   interpolation_mode = interpolation_mode.upper().replace(" ", "_")
\*   interpolation_mode = getattr(InterpolationMode, interpolation_mode)
\* None stands for the AttributeError of a name that is no member.
resolve_interpolation_mode(interpolation_mode) ==
    LET name == replace(upper(interpolation_mode), " ", "_")
    IN  IF name \in InterpolationMode THEN Some(name) ELSE None

\* Python's round() of the rational p/q (p >= 0, q > 0): to the nearest
\* integer, ties to the even one.
round(p, q) ==
    LET f == p \div q
        r == p % q
    IN  IF 2 * r < q THEN f
        ELSE IF 2 * r > q THEN f + 1
        ELSE IF f % 2 = 0 THEN f ELSE f + 1

\* The output (height, width) torchvision's resize computes for an image of
\* (h, w): a pair is taken as it is, a single int is the length of the shorter
\* side and the longer one is int(size * long / short).
compute_resized_output_size(h, w, size) ==
    IF Len(size) = 2 THEN size
    ELSE LET short == Min(h, w)
             long == Max(h, w)
             new_short == size[1]
             new_long == (size[1] * long) \div short
         IN  IF w <= h THEN <<new_long, new_short>> ELSE <<new_short, new_long>>

\* torchvision.transforms.Resize(size, interpolation, antialias=True)(img) on
\* a tensor (..., H, W): the image itself when it already has the output
\* size; otherwise torch's interpolate, which rejects a kernel it does not
\* implement and an output side of 0.  The resampled values are the kernel's;
\* the model takes the pixel nearest to each output position.
Resize(size, interpolation, img) ==
    LET n == Len(img.shape)
        h == img.shape[n - 1]
        w == img.shape[n]
        out == compute_resized_output_size(h, w, size)
        sh == [img.shape EXCEPT ![n - 1] = out[1], ![n] = out[2]]
    IN  IF out = <<h, w>> THEN [exc |-> "None", image |-> Some(img)]
        ELSE IF interpolation \notin TensorKernels
        THEN [exc |-> "NotImplementedError", image |-> None]
        ELSE IF out[1] < 1 \/ out[2] < 1
        THEN [exc |-> "RuntimeError", image |-> None]
        ELSE [exc |-> "None",
              image |-> Some(Tensor(sh, [idx \in Indices(sh) |->
                  img.data[[idx EXCEPT ![n - 1] = (idx[n - 1] * h) \div out[1],
                                       ![n] = (idx[n] * w) \div out[2]]]]))]

\* The tail shared by the image resize nodes: convert to NCHW, resize,
\* convert back.
ResizeImage(image, size, kernel) ==
    IF kernel.none
    THEN [exc |-> "AttributeError", kernel |-> None, image |-> None]
    ELSE LET r == Resize(size, kernel.val, comfyui_to_native_torch(image))
         IN  [exc |-> r.exc, kernel |-> kernel,
              image |-> IF r.image.none THEN None
                        ELSE Some(native_torch_to_comfyui(r.image.val))]

\* JWImageResize.execute
Resize_execute(image, width, height, interpolation_mode) ==
    ResizeImage(image, <<height, width>>,
                resolve_interpolation_mode(interpolation_mode))

\* JWMaskResize.execute
MaskResize_execute(mask, width, height, interpolation_mode) ==
    LET kernel == resolve_interpolation_mode(interpolation_mode)
    IN  IF kernel.none
        THEN [exc |-> "AttributeError", kernel |-> None, image |-> None]
        ELSE LET r == Resize(<<height, width>>, kernel.val, Unsqueeze0(mask))
             IN  [exc |-> r.exc, kernel |-> kernel,
                  image |-> IF r.image.none THEN None
                            ELSE Some(Select0(r.image.val, 0))]

\* JWImageResizeToSquare.execute
ResizeToSquare_execute(image, size, interpolation_mode) ==
    ResizeImage(image, <<size, size>>,
                resolve_interpolation_mode(interpolation_mode))

\* JWImageResizeByFactor.execute with the sides truncated (mutant).
ResizeByFactor_execute_floor(image, factor, interpolation_mode) ==
    ResizeImage(image, <<(image.shape[2] * factor.num) \div factor.den,
                         (image.shape[3] * factor.num) \div factor.den>>,
                resolve_interpolation_mode(interpolation_mode))

\* JWImageResizeByFactor.execute; the factor is the rational num/den.
ResizeByFactor_execute(image, factor, interpolation_mode) ==
    LET new_height == round(image.shape[2] * factor.num, factor.den)
        new_width == round(image.shape[3] * factor.num, factor.den)
    IN  ResizeImage(image, <<new_height, new_width>>,
                    resolve_interpolation_mode(interpolation_mode))

\* JWImageResizeByShorterSide.execute with the size handed over as a
\* (size, size) pair (mutant).
ResizeByShorterSide_execute_pair(image, size, interpolation_mode) ==
    ResizeImage(image, <<size, size>>,
                resolve_interpolation_mode(interpolation_mode))

\* JWImageResizeByShorterSide.execute
ResizeByShorterSide_execute(image, size, interpolation_mode) ==
    ResizeImage(image, <<size>>, resolve_interpolation_mode(interpolation_mode))

\* JWImageResizeByLongerSide.execute: the computed sides are handed to Resize
\* as (new_w, new_h).
ResizeByLongerSide_execute(image, size, interpolation_mode) ==
    LET h == image.shape[2]
        w == image.shape[3]
        new_h == IF h >= w THEN size ELSE round(h * size, w)
        new_w == IF h >= w THEN round(w * size, h) ELSE size
    IN  ResizeImage(image, <<new_w, new_h>>,
                    resolve_interpolation_mode(interpolation_mode))

(***************************** inputs ***************************************)
\* Pixel values of tensors whose every element is enumerated.
Pixels == {0, 255}

\* NHWC shapes of the tensors handed to the converters.
SmallShapes ==
    {s \in [1..4 -> 1..MaxDim] : s[1] * s[2] * s[3] * s[4] <= MaxElems}

SmallTensors ==
    UNION {{Tensor(s, d) : d \in [Indices(s) -> Pixels]} : s \in SmallShapes}

\* Destination paths: out.png, ./image.png (the nodes' default), d/out.png
\* (in a directory to be made) and a.b.png (two dots).
Paths ==
    { <<"o", "u", "t", ".", "p", "n", "g">>,
      <<".", "/", "i", "m", "a", "g", "e", ".", "p", "n", "g">>,
      <<"d", "/", "o", "u", "t", ".", "p", "n", "g">>,
      <<"a", ".", "b", ".", "p", "n", "g">> }

\* The hidden prompt input: absent, or a JSON value.
Prompts == {None, Some([int |-> 7])}

\* The hidden extra_pnginfo input: absent, an empty dict, or a dict of two
\* items (one of them under the key "prompt").
ExtraPnginfos ==
    { None,
      Some(<<>>),
      Some(<< <<(<<"w", "f">>), [str |-> <<"x">>]>>,
              <<(<<"p", "r", "o", "m", "p", "t">>), [int |-> 12]>> >>) }

\* Pixel values of the images to save: below 0.0, inside [0,1], above 1.0.
SavePixels == {-255, 128, 510}

\* Channel counts of the images to save.
SaveChannels == {1, 3, 4}

\* A batch of n images of shape (1, w, c), image k filled with fill[k].
Batch(n, w, c, fill) ==
    Tensor(<<n, 1, w, c>>,
           [idx \in Indices(<<n, 1, w, c>>) |-> fill[idx[1] + 1]])

SaveBatches ==
    UNION {{Batch(n, w, c, fill) :
               w \in 1..2, c \in SaveChannels, fill \in [1..n -> SavePixels]} :
           n \in 0..MaxBatch}

\* Byte values of decoded image files.
Bytes == {0, 100, 255}

\* Decoded image files: one row of one or two pixels, RGB or RGBA.
DecodedImages ==
    UNION {{[mode |-> m.mode, pixels |-> Tensor(<<1, w, m.c>>, d)] :
               d \in [Indices(<<1, w, m.c>>) -> Bytes]} :
           w \in 1..2, m \in {[mode |-> "RGB", c |-> 3], [mode |-> "RGBA", c |-> 4]}}

\* The interpolation_mode choices every resize node declares in INPUT_TYPES.
DeclaredModes ==
    { <<"b", "i", "c", "u", "b", "i", "c">>,
      <<"b", "i", "l", "i", "n", "e", "a", "r">>,
      <<"n", "e", "a", "r", "e", "s", "t">>,
      <<"n", "e", "a", "r", "e", "s", "t", " ", "e", "x", "a", "c", "t">> }

\* The interpolation_mode strings handed to execute: the declared ones, a
\* mixed-case one, other kernel names, a name of no kernel, the empty string.
ModeStrings ==
    DeclaredModes \cup
    { <<"N", "e", "a", "r", "e", "s", "t", " ", "E", "x", "a", "c", "t">>,
      <<"b", "o", "x">>,
      <<"l", "a", "n", "c", "z", "o", "s">>,
      <<"h", "a", "m", "m", "i", "n", "g">>,
      <<"c", "u", "b", "i", "c">>,
      <<>> }

\* An image or mask of the given shape with a checkerboard of 0.0 and 1.0.
Checker(shape) ==
    Tensor(shape, [idx \in Indices(shape) |->
                      IF (idx[2] + idx[3]) % 2 = 0 THEN 0 ELSE Scale])

\* Images (N,H,W,3) and masks (N,H,W) handed to the resize nodes.
ResizeImages ==
    {Checker(<<n, h, w, 3>>) : n \in 1..2, h \in 1..MaxSide, w \in 1..MaxSide}
ResizeMasks ==
    {Checker(<<n, h, w>>) : n \in 1..2, h \in 1..MaxSide, w \in 1..MaxSide}

\* Factors: 0, 1/4, 1/2, 1, 3/2, 5/2 (binary fractions, exact as floats).
Factors ==
    { [num |-> 0, den |-> 1], [num |-> 1, den |-> 4], [num |-> 1, den |-> 2],
      [num |-> 1, den |-> 1], [num |-> 3, den |-> 2], [num |-> 5, den |-> 2] }

(***************************** actions **************************************)
Init ==
    /\ pc = "ready"
    /\ node = "none"
    /\ args = None
    /\ ret = None
    /\ written = <<>>
    /\ dirs = {<<>>}

\* comfyui_to_native_torch followed by native_torch_to_comfyui.
RoundTrip ==
    /\ pc = "ready"
    /\ \E T \in SmallTensors :
        /\ node' = "RoundTrip"
        /\ args' = [imgs |-> T]
        /\ ret' = [native |-> comfyui_to_native_torch(T),
                   back |-> native_torch_to_comfyui(comfyui_to_native_torch(T))]
    /\ pc' = "done"
    /\ UNCHANGED <<written, dirs>>

\* save_image called on one image (H,W,C), or on a whole batch.
SaveImage ==
    /\ pc = "ready"
    /\ \E image \in SaveBatches, whole \in BOOLEAN, path \in Paths,
          prompt \in Prompts, extra_pnginfo \in ExtraPnginfos :
        /\ whole \/ image.shape[1] >= 1
        /\ LET img == IF whole THEN image ELSE Select0(image, 0)
               r == save_image(img, Path(path), prompt, extra_pnginfo)
           IN  /\ node' = "save_image"
               /\ args' = [img |-> img, path |-> path, prompt |-> prompt,
                           extra_pnginfo |-> extra_pnginfo]
               /\ ret' = [exc |-> r.exc, msg |-> r.msg, value |-> r.value]
               /\ written' = written \o r.files
    /\ pc' = "done"
    /\ UNCHANGED dirs

\* JWImageSaveToPath.execute
SaveToPath ==
    /\ pc = "ready"
    /\ \E image \in SaveBatches, path \in Paths,
          prompt \in Prompts, extra_pnginfo \in ExtraPnginfos :
        LET r == SaveToPath_execute(path, image, prompt, extra_pnginfo)
        IN  /\ node' = "JWImageSaveToPath"
            /\ args' = [image |-> image, path |-> path, prompt |-> prompt,
                        extra_pnginfo |-> extra_pnginfo]
            /\ dirs' = mkdir(r.mkdir, dirs)
            /\ ret' = [exc |-> r.exc, msg |-> r.msg, value |-> r.value]
            /\ written' = written \o r.files
    /\ pc' = "done"

\* JWImageLoadRGB.execute on a file that decodes to the drawn image.
LoadRGB ==
    /\ pc = "ready"
    /\ \E decoded \in DecodedImages :
        /\ node' = "JWImageLoadRGB"
        /\ args' = [decoded |-> decoded]
        /\ ret' = LoadRGB_execute(decoded)
    /\ pc' = "done"
    /\ UNCHANGED <<written, dirs>>

\* JWImageLoadRGBA.execute on a file that decodes to the drawn image.
LoadRGBA ==
    /\ pc = "ready"
    /\ \E decoded \in DecodedImages :
        /\ node' = "JWImageLoadRGBA"
        /\ args' = [decoded |-> decoded]
        /\ ret' = LoadRGBA_execute(decoded)
    /\ pc' = "done"
    /\ UNCHANGED <<written, dirs>>

\* JWImageResize.execute
ImageResize ==
    /\ pc = "ready"
    /\ \E image \in ResizeImages, width \in 0..MaxSize, height \in 0..MaxSize,
          interpolation_mode \in ModeStrings :
        /\ node' = "JWImageResize"
        /\ args' = [image |-> image, width |-> width, height |-> height,
                    interpolation_mode |-> interpolation_mode]
        /\ ret' = Resize_execute(image, width, height, interpolation_mode)
    /\ pc' = "done"
    /\ UNCHANGED <<written, dirs>>

\* JWMaskResize.execute
MaskResize ==
    /\ pc = "ready"
    /\ \E mask \in ResizeMasks, width \in 0..MaxSize, height \in 0..MaxSize,
          interpolation_mode \in ModeStrings :
        /\ node' = "JWMaskResize"
        /\ args' = [image |-> mask, width |-> width, height |-> height,
                    interpolation_mode |-> interpolation_mode]
        /\ ret' = MaskResize_execute(mask, width, height, interpolation_mode)
    /\ pc' = "done"
    /\ UNCHANGED <<written, dirs>>

\* JWImageResizeToSquare.execute
ImageResizeToSquare ==
    /\ pc = "ready"
    /\ \E image \in ResizeImages, size \in 0..MaxSize,
          interpolation_mode \in ModeStrings :
        /\ node' = "JWImageResizeToSquare"
        /\ args' = [image |-> image, size |-> size,
                    interpolation_mode |-> interpolation_mode]
        /\ ret' = ResizeToSquare_execute(image, size, interpolation_mode)
    /\ pc' = "done"
    /\ UNCHANGED <<written, dirs>>

\* JWImageResizeByFactor.execute
ImageResizeByFactor ==
    /\ pc = "ready"
    /\ \E image \in ResizeImages, factor \in Factors,
          interpolation_mode \in ModeStrings :
        /\ node' = "JWImageResizeByFactor"
        /\ args' = [image |-> image, factor |-> factor,
                    interpolation_mode |-> interpolation_mode]
        /\ ret' = ResizeByFactor_execute(image, factor, interpolation_mode)
    /\ pc' = "done"
    /\ UNCHANGED <<written, dirs>>

\* JWImageResizeByShorterSide.execute
ImageResizeByShorterSide ==
    /\ pc = "ready"
    /\ \E image \in ResizeImages, size \in 0..MaxSize,
          interpolation_mode \in ModeStrings :
        /\ node' = "JWImageResizeByShorterSide"
        /\ args' = [image |-> image, size |-> size,
                    interpolation_mode |-> interpolation_mode]
        /\ ret' = ResizeByShorterSide_execute(image, size, interpolation_mode)
    /\ pc' = "done"
    /\ UNCHANGED <<written, dirs>>

\* JWImageResizeByLongerSide.execute
ImageResizeByLongerSide ==
    /\ pc = "ready"
    /\ \E image \in ResizeImages, size \in 0..MaxSize,
          interpolation_mode \in ModeStrings :
        /\ node' = "JWImageResizeByLongerSide"
        /\ args' = [image |-> image, size |-> size,
                    interpolation_mode |-> interpolation_mode]
        /\ ret' = ResizeByLongerSide_execute(image, size, interpolation_mode)
    /\ pc' = "done"
    /\ UNCHANGED <<written, dirs>>

Next ==
    \/ RoundTrip
    \/ SaveImage
    \/ SaveToPath
    \/ LoadRGB
    \/ LoadRGBA
    \/ ImageResize
    \/ MaskResize
    \/ ImageResizeToSquare
    \/ ImageResizeByFactor
    \/ ImageResizeByShorterSide
    \/ ImageResizeByLongerSide

Spec == Init /\ [][Next]_vars

(***************************** claims ***************************************)
\* C1: for every 4-D tensor T of shape (N,H,W,C), converting NHWC -> NCHW ->
\* NHWC gives a tensor of the same shape with the same value at every index,
\* and the intermediate tensor has shape (N,C,H,W).
C1_RoundTripIdentity ==
    node = "RoundTrip" =>
        /\ ret.back.shape = args.imgs.shape
        /\ \A idx \in Indices(args.imgs.shape) :
               ret.back.data[idx] = args.imgs.data[idx]
        /\ ret.native.shape = <<args.imgs.shape[1], args.imgs.shape[4],
                                args.imgs.shape[2], args.imgs.shape[3]>>

\* A round trip of a tensor with distinct sizes on H, W and C and two
\* different pixel values.
C1_Witness ==
    /\ node = "RoundTrip"
    /\ args.imgs.shape = <<1, 1, 2, 3>>
    /\ args.imgs.data[<<0, 0, 0, 0>>] # args.imgs.data[<<0, 0, 1, 2>>]

(*************************** claims: saving *********************************)
\* The text of a destination path as pathlib prints it.
DestText == path_str(Path(args.path))

\* The 1-based position of the last "." of a text.
LastDot(text) == CHOOSE k \in 1..Len(text) :
                    text[k] = "." /\ \A j \in (k + 1)..Len(text) : text[j] # "."

\* S-i.E for the destination, i < 10: the destination's text with "-" and
\* the digit i put before its last ".".
Indexed(text, i) ==
    SubSeq(text, 1, LastDot(text) - 1) \o <<"-", DigitChars[i + 1]>>
        \o SubSeq(text, LastDot(text), Len(text))

\* The bytes image i of the batch is saved as: its values clamped to [0,1].
SavedPixelsOf(file, i) ==
    /\ file.pixels.shape = Tail(args.image.shape)
    /\ \A idx \in Indices(Tail(args.image.shape)) :
           file.pixels.data[idx] = Max(0, Min(255, args.image.data[<<i>> \o idx]))

SaveNodeCalled == node = "JWImageSaveToPath"
BatchSize == args.image.shape[1]
Channels == args.image.shape[4]

\* C2: given a batch of N >= 2 three-channel images and a path with stem S
\* and extension E, the save node writes exactly the files S-i.E, 0 <= i < N,
\* in the path's directory, in increasing order of i, file i holding image i,
\* and no other file (not the unsuffixed path); out.png with N = 3 gives
\* out-0.png, out-1.png, out-2.png.
C2_BatchSaveFiles ==
    (SaveNodeCalled /\ BatchSize >= 2 /\ Channels = 3) =>
        /\ ret.exc = "None"
        /\ Len(written) = BatchSize
        /\ \A i \in 0..(BatchSize - 1) :
               /\ written[i + 1].path = Indexed(DestText, i)
               /\ SavedPixelsOf(written[i + 1], i)
        /\ \A k \in 1..Len(written) : written[k].path # DestText
        /\ (args.path = <<"o", "u", "t", ".", "p", "n", "g">> /\ BatchSize = 3) =>
               [k \in 1..3 |-> written[k].path] =
                   << <<"o", "u", "t", "-", "0", ".", "p", "n", "g">>,
                      <<"o", "u", "t", "-", "1", ".", "p", "n", "g">>,
                      <<"o", "u", "t", "-", "2", ".", "p", "n", "g">> >>

\* A batch of three three-channel images saved to out.png.
C2_Witness ==
    /\ SaveNodeCalled /\ BatchSize = 3 /\ Channels = 3
    /\ args.path = <<"o", "u", "t", ".", "p", "n", "g">>
    /\ Len(written) = 3

\* C3: saving an image whose channel count is not 3 raises a ValueError that
\* names the actual channel count and writes no file, for save_image on one
\* (H,W,C) image and for the save node on a batch of N >= 1 such images.
C3_WrongChannelCount ==
    /\ (node = "save_image" /\ Len(args.img.shape) = 3 /\ args.img.shape[3] # 3) =>
           /\ ret.exc = "ValueError"
           /\ ret.msg = [what |-> "channels", got |-> args.img.shape[3]]
           /\ written = <<>>
    /\ (SaveNodeCalled /\ BatchSize >= 1 /\ Channels # 3) =>
           /\ ret.exc = "ValueError"
           /\ ret.msg = [what |-> "channels", got |-> Channels]
           /\ written = <<>>

\* A four-channel batch of two images handed to the save node.
C3_Witness ==
    /\ SaveNodeCalled /\ BatchSize = 2 /\ Channels = 4
    /\ ret.exc = "ValueError"

\* C9: given a batch of exactly one three-channel image, the save node writes
\* exactly one file, at the destination path itself (no "-0" suffix), holding
\* one text chunk named "prompt" when a prompt is supplied followed by one
\* text chunk per key of the extra metadata record.
C9_SingleImageSave ==
    (SaveNodeCalled /\ BatchSize = 1 /\ Channels = 3) =>
        LET np == IF args.prompt.none THEN 0 ELSE 1
            items == IF args.extra_pnginfo.none THEN <<>> ELSE args.extra_pnginfo.val
        IN  /\ ret.exc = "None"
            /\ Len(written) = 1
            /\ written[1].path = DestText
            /\ (args.path[1] # ".") => written[1].path = args.path
            /\ SavedPixelsOf(written[1], 0)
            /\ Len(written[1].chunks) = np + Len(items)
            /\ np = 1 => written[1].chunks[1].key = <<"p", "r", "o", "m", "p", "t">>
            /\ \A k \in 1..Len(items) : written[1].chunks[np + k].key = items[k][1]

\* One image saved with a prompt and a two-key metadata record.
C9_Witness ==
    /\ SaveNodeCalled /\ BatchSize = 1 /\ Channels = 3
    /\ ~args.prompt.none
    /\ ~args.extra_pnginfo.none /\ Len(args.extra_pnginfo.val) = 2
    /\ Len(written) = 1 /\ Len(written[1].chunks) = 3

\* C10: given a batch of zero images the save node writes no file, raises no
\* error and returns normally (the empty tuple).
C10_EmptyBatch ==
    (SaveNodeCalled /\ BatchSize = 0) =>
        /\ ret.exc = "None"
        /\ ret.value = <<>>
        /\ written = <<>>

\* An empty batch handed to the save node.
C10_Witness ==
    /\ SaveNodeCalled /\ BatchSize = 0
    /\ pc = "done"

(*************************** claims: loading ********************************)
\* C8: the RGBA loader returns the first 3 channels as the colour tensor and
\* a mask whose every pixel is 1 - alpha/255 of the decoded image's alpha
\* channel: alpha 255 everywhere gives a mask of all 0s, alpha 0 everywhere a
\* mask of all 1s, and every mask value lies in [0,1].  (A file without an
\* alpha channel decodes to RGBA with alpha 255 everywhere.)
C8_RGBAMask ==
    (node = "JWImageLoadRGBA") =>
        LET px == pil_convert(args.decoded, "RGBA")
            h == px.shape[1]
            w == px.shape[2]
            Alpha(y, x) == px.data[<<y, x, 3>>]
            Pos == (0..(h - 1)) \X (0..(w - 1))
        IN  /\ ret.color.shape = <<1, h, w, 3>>
            /\ \A p \in Pos, c \in 0..2 :
                   ret.color.data[<<0, p[1], p[2], c>>] = px.data[<<p[1], p[2], c>>]
            /\ args.decoded.mode = "RGB" =>
                   \A p \in Pos : Alpha(p[1], p[2]) = 255
            /\ ret.mask.shape = <<h, w>>
            /\ \A p \in Pos :
                   /\ ret.mask.data[<<p[1], p[2]>>] + Alpha(p[1], p[2]) = Scale
                   /\ ret.mask.data[<<p[1], p[2]>>] \in 0..Scale
            /\ (\A p \in Pos : Alpha(p[1], p[2]) = 255) =>
                   \A p \in Pos : ret.mask.data[<<p[1], p[2]>>] = 0
            /\ (\A p \in Pos : Alpha(p[1], p[2]) = 0) =>
                   \A p \in Pos : ret.mask.data[<<p[1], p[2]>>] = Scale

\* An RGBA file of two pixels, one opaque and one partly transparent, whose
\* colour channels differ from its alpha.
C8_Witness ==
    /\ node = "JWImageLoadRGBA" /\ args.decoded.mode = "RGBA"
    /\ args.decoded.pixels.shape = <<1, 2, 4>>
    /\ args.decoded.pixels.data[<<0, 0, 3>>] = 255
    /\ args.decoded.pixels.data[<<0, 1, 3>>] = 100
    /\ args.decoded.pixels.data[<<0, 0, 2>>] = 0
    /\ ret.mask.data[<<0, 0>>] = 0

(*************************** claims: resizing *******************************)
ResizeNodes ==
    {"JWImageResize", "JWMaskResize", "JWImageResizeToSquare",
     "JWImageResizeByFactor", "JWImageResizeByShorterSide",
     "JWImageResizeByLongerSide"}

\* BICUBIC, BILINEAR, NEAREST, NEAREST_EXACT
FourKernelNames ==
    { <<"B", "I", "C", "U", "B", "I", "C">>,
      <<"B", "I", "L", "I", "N", "E", "A", "R">>,
      <<"N", "E", "A", "R", "E", "S", "T">>,
      <<"N", "E", "A", "R", "E", "S", "T", "_", "E", "X", "A", "C", "T">> }

Normalized == replace(upper(args.interpolation_mode), " ", "_")

\* C4: in every resize node the interpolation_mode string is uppercased, its
\* spaces are replaced by underscores, and the result is resolved to a
\* kernel; any string that does not normalize to one of BICUBIC, BILINEAR,
\* NEAREST, NEAREST_EXACT makes the node fail: no kernel is selected and no
\* image is returned.
C4_ClosedEnumeration ==
    (node \in ResizeNodes /\ Normalized \notin FourKernelNames) =>
        /\ ret.exc # "None"
        /\ ret.kernel.none
        /\ ret.image.none

InH == args.image.shape[2]
InW == args.image.shape[3]
OutShape == ret.image.val.shape

\* C5: for an image (N,H,W,C) and a size, Resize by Longer Side returns an
\* image of shape (N,new_h,new_w,C) where, if H >= W, new_h = size and
\* new_w = round(W * size / H), and otherwise new_w = size and
\* new_h = round(H * size / W).
C5_LongerSideShape ==
    (node = "JWImageResizeByLongerSide" /\ ret.exc = "None") =>
        LET new_h == IF InH >= InW THEN args.size ELSE round(InH * args.size, InW)
            new_w == IF InH >= InW THEN round(InW * args.size, InH) ELSE args.size
        IN  OutShape = <<args.image.shape[1], new_h, new_w, args.image.shape[4]>>

\* C6: for an image (N,H,W,C) with H < W and a size S >= 1, Resize by Shorter
\* Side returns an image of shape (N,S,W',C) with W' within 1 pixel of
\* S*W/H; for W < H the output width is S and the height is within 1 pixel
\* of S*H/W.
C6_ShorterSideShape ==
    (/\ node = "JWImageResizeByShorterSide"
     /\ args.interpolation_mode \in DeclaredModes
     /\ args.size >= 1 /\ InH # InW) =>
        /\ ret.exc = "None"
        /\ Len(OutShape) = 4
        /\ OutShape[1] = args.image.shape[1]
        /\ OutShape[4] = args.image.shape[4]
        /\ InH < InW =>
               /\ OutShape[2] = args.size
               /\ OutShape[3] * InH - args.size * InW \in (0 - InH)..InH
        /\ InW < InH =>
               /\ OutShape[3] = args.size
               /\ OutShape[2] * InW - args.size * InH \in (0 - InW)..InW

\* A 3 x 4 image resized to a shorter side of 2: S*W/H = 8/3 is no integer.
C6_Witness ==
    /\ node = "JWImageResizeByShorterSide"
    /\ args.interpolation_mode \in DeclaredModes
    /\ InH = 3 /\ InW = 4 /\ args.size = 2
    /\ ret.exc = "None" /\ OutShape[2] = 2

====
